---- MODULE Spec2Model ----
(***************************************************************************)
(* pytest-assume: the soft-assertion primitive assume(), the two module    *)
(* level buffers it appends to, and the pytest_pyfunc_call hook wrapper    *)
(* that drains them after the test function and raises FailedAssumption.   *)
(*                                                                         *)
(* Strings are modelled by their structure: a source line or a message is  *)
(* a sequence of characters, a report is a sequence of tokens (the         *)
(* "Original Failure" prefix, the "N Failed Assumptions" header, one token *)
(* per entry, the "\n\n" separators, one token per Locals block).          *)
(***************************************************************************)
EXTENDS Integers, Sequences, FiniteSets, TLC

\* ------------------------------------------------------------------ bounds

\* The most entries the failure buffer holds before assume(False) is no
\* longer offered to the model.
MaxFailed == 2

\* ------------------------------------------------------- program constants

\* default of the --assume-max-repr-len option
DefaultMaxReprLen == 240

\* maxsize that saferepr(val) applies when called with one argument
SafeReprMaxSize == 240

\* ------------------------------------------------------------------- state

VARIABLES
    FAILED_ASSUMPTIONS,  \* _FAILED_ASSUMPTIONS: list of entries (module global)
    ASSUMPTION_LOCALS,   \* _ASSUMPTION_LOCALS: list of pretty_locals lists
    showlocals,          \* pytest._showlocals, set by pytest_configure
    max_repr_len,        \* value of the --assume-max-repr-len option
    pc,                  \* per execution context: phase of its current unit
    xfail,               \* the unit carries @pytest.mark.xfail(run=True)
    f_locals,            \* frame.f_locals of the running test function
    arg,                 \* expr of the last assume() call
    ret,                 \* how the last assume() call ended
    exit,                \* how the wrapped call left the wrapper's yield
    exc,                 \* the exception in flight when it left (or NoExc)
    raised,              \* the exception that reaches the runner from the hook
    drained,             \* failed_assumptions as read by the finally block
    nraise,              \* FailedAssumption errors raised for this unit
    recorded,            \* history: the false calls of this unit's body
    prev_raised          \* history: the wrapper raised for the preceding unit

shared == <<FAILED_ASSUMPTIONS, ASSUMPTION_LOCALS>>
config == <<showlocals, max_repr_len>>
callv == <<arg, ret>>
endv == <<exit, exc>>
finv == <<raised, drained, nraise, prev_raised>>
vars == <<FAILED_ASSUMPTIONS, ASSUMPTION_LOCALS, showlocals, max_repr_len, pc,
          xfail, f_locals, arg, ret, exit, exc, raised, drained, nraise,
          recorded, prev_raised>>

\* Execution contexts (threads of one process sharing the module globals).
Threads == {1, 2}

\* ------------------------------------------------------------------ values

\* Python values passed as expr, by their literal.
Values == {"True", "False", "0", "'x'"}

\* bool(expr), as "if not expr" coerces it.
Truthy(expr) == expr \in {"True", "'x'"}

\* Values a local variable of the test function takes.
LocalVals == {"1", "long"}

\* len(repr(val)) of a local value.
ReprLen(val) == IF val = "long" THEN 300 ELSE 1

\* Messages: '' and a non-empty one that starts with whitespace.
Msgs == {<<>>, <<" ", "m">>}

\* A call site as inspect.stack()[1] reports it: the absolute file name, the
\* line, and code_context (a one-line list, or None when the source text is
\* not available).
Cwd == <<"proj">>

Site(file, line, isNone, text) ==
    [filename |-> Cwd \o <<file>>, line |-> line,
     contextlist |-> [isNone |-> isNone, lines |-> IF isNone THEN <<>> ELSE <<text>>]]

SitesOf(t) ==
    LET file == IF t = 1 THEN "test_a.py" ELSE "test_b.py" IN
    { Site(file, 3, FALSE, <<" ", " ", "assume(a == b)">>),
      Site(file, 7, TRUE, <<>>) }

\* ------------------------------------------------------------- exceptions

\* One token of a report text.
Tok(k, repr, n, entry, flocals) ==
    [k |-> k, repr |-> repr, n |-> n, entry |-> entry, flocals |-> flocals]

NoEntry == [filename |-> <<>>, line |-> 0, context |-> <<>>]

\* An exception: its type, the text it was built with (a hard failure), the
\* report it carries (FailedAssumption), and the traceback attached to it.
MkExc(type, text, msg, tb) == [type |-> type, text |-> text, msg |-> msg, tb |-> tb]

NoExc == MkExc("None", "", <<>>, "none")

\* Hard failures a test body raises, with the traceback of the raise.
HardFailures ==
    { MkExc("AssertionError", "assert 1 == 2", <<>>, "tb_test_body"),
      MkExc("ValueError", "boom", <<>>, "tb_test_body") }

\* Exceptions delivered into the wrapper at its yield (no outcome object).
Thrown == { MkExc("GeneratorExit", "", <<>>, "tb_runner") }

\* contextlist[0] when contextlist is None
SubscriptNone == MkExc("TypeError", "'NoneType' object is not subscriptable", <<>>, "tb_assume")

\* repr(exc) of a hard failure: its type and its text.
Repr(e) == <<e.type, e.text>>

\* ---------------------------------------------------------------- assume()

\* os.path.relpath(filename) for a file below the working directory.
relpath(filename) ==
    IF Len(filename) > Len(Cwd) /\ SubSeq(filename, 1, Len(Cwd)) = Cwd
    THEN SubSeq(filename, Len(Cwd) + 1, Len(filename))
    ELSE <<"..">> \o filename

\* str.lstrip(): the text without its leading whitespace.
RECURSIVE lstrip(_)
lstrip(s) == IF s # <<>> /\ Head(s) = " " THEN lstrip(Tail(s)) ELSE s

\* "contextlist[0].lstrip() if not msg else msg" raises when it subscripts None.
ContextRaises(site, msg) == msg = <<>> /\ site.contextlist.isNone

\* A variant of context that strips the message as well.
context_stripped(site, msg) ==
    lstrip(IF msg = <<>> THEN site.contextlist.lines[1] ELSE msg)

\* context = contextlist[0].lstrip() if not msg else msg
context(site, msg) ==
    IF msg = <<>> THEN lstrip(site.contextlist.lines[1]) ELSE msg

\* u"{filename}:{line}: AssumptionFailure\n>>\t{context}".format(**locals())
entry(site, msg) ==
    [filename |-> relpath(site.filename), line |-> site.line,
     context |-> context(site, msg)]

\* saferepr(val): repr(val), cut to maxsize characters.
saferepr(val) ==
    [txt |-> val,
     len |-> IF ReprLen(val) > SafeReprMaxSize THEN SafeReprMaxSize ELSE ReprLen(val)]

\* ["\t%-10s = %s" % (name, saferepr(val)) for name, val in frame.f_locals.items()]
pretty_locals(fl) ==
    [i \in 1..Len(fl) |-> [name |-> fl[i].name, value |-> saferepr(fl[i].val)]]

\* A variant of AssumeReturn that hands expr back as it came.
AssumeReturnsExpr(expr) == expr

\* The value assume() returns to its caller.
AssumeReturn(expr) == IF Truthy(expr) THEN "True" ELSE "False"

\* _FAILED_ASSUMPTIONS.append(entry)
AppendEntry(failed, site, msg) == Append(failed, entry(site, msg))

\* Variants of AppendLocals: one that ignores the flag, one that skips a
\* caller without local variables.
AppendLocalsAlways(locals, flag, fl) == Append(locals, pretty_locals(fl))

AppendLocalsIfAny(locals, flag, fl) ==
    IF flag /\ fl # <<>> THEN Append(locals, pretty_locals(fl)) ELSE locals

\* if getattr(pytest, "_showlocals", None): _ASSUMPTION_LOCALS.append(pretty_locals)
AppendLocals(locals, flag, fl) ==
    IF flag THEN Append(locals, pretty_locals(fl)) ELSE locals

\* assume(expr, msg) called from `site` by the test function of context t.
Assume(t, expr, msg, site) ==
    /\ pc[t] = "body"
    /\ arg' = [arg EXCEPT ![t] = expr]
    /\ UNCHANGED <<config, xfail, f_locals, finv>>
    /\ IF Truthy(expr)
       THEN /\ ret' = [ret EXCEPT ![t] = AssumeReturn(expr)]
            /\ UNCHANGED <<shared, pc, endv, recorded>>
       ELSE IF ContextRaises(site, msg)
       THEN \* the TypeError leaves assume() and ends the test function
            /\ ret' = [ret EXCEPT ![t] = "Raised"]
            /\ pc' = [pc EXCEPT ![t] = "ended"]
            /\ exit' = [exit EXCEPT ![t] = "raise"]
            /\ exc' = [exc EXCEPT ![t] = SubscriptNone]
            /\ UNCHANGED <<shared, recorded>>
       ELSE /\ Len(FAILED_ASSUMPTIONS) < MaxFailed
            /\ FAILED_ASSUMPTIONS' = AppendEntry(FAILED_ASSUMPTIONS, site, msg)
            /\ ASSUMPTION_LOCALS' = AppendLocals(ASSUMPTION_LOCALS, showlocals, f_locals[t])
            /\ ret' = [ret EXCEPT ![t] = AssumeReturn(expr)]
            /\ recorded' = [recorded EXCEPT ![t] =
                 Append(@, [entry |-> entry(site, msg), snapshot |-> f_locals[t],
                            msg |-> msg, site |-> site])]
            /\ UNCHANGED <<pc, endv>>

\* The call site of an assume() in a fixture of conftest.py.
FixtureSite == Site("conftest.py", 5, FALSE, <<" ", "assume(ready)">>)

\* assume(expr, msg) called by a fixture of the unit while the fixture is
\* torn down, after pytest_pyfunc_call has returned for the unit.  The
\* fixture function has no local variables.
FixtureAssume(t, expr, msg) ==
    /\ pc[t] = "teardown"
    /\ Truthy(expr) \/ Len(FAILED_ASSUMPTIONS) < MaxFailed
    /\ FAILED_ASSUMPTIONS' =
         IF Truthy(expr) THEN FAILED_ASSUMPTIONS
         ELSE AppendEntry(FAILED_ASSUMPTIONS, FixtureSite, msg)
    /\ ASSUMPTION_LOCALS' =
         IF Truthy(expr) THEN ASSUMPTION_LOCALS
         ELSE AppendLocals(ASSUMPTION_LOCALS, showlocals, <<>>)
    /\ UNCHANGED <<config, pc, xfail, f_locals, callv, endv, finv, recorded>>

\* ------------------------------------------------- the unit's other steps

\* A unit begins: its fixtures are set up.  The runner has reported the
\* previous unit of this context.
StartUnit(t, xf) ==
    /\ pc[t] = "teardown"
    /\ pc' = [pc EXCEPT ![t] = "setup"]
    /\ xfail' = [xfail EXCEPT ![t] = xf]
    /\ f_locals' = [f_locals EXCEPT ![t] = <<>>]
    /\ arg' = [arg EXCEPT ![t] = "None"]
    /\ ret' = [ret EXCEPT ![t] = "NotCalled"]
    /\ exit' = [exit EXCEPT ![t] = "none"]
    /\ exc' = [exc EXCEPT ![t] = NoExc]
    /\ raised' = [raised EXCEPT ![t] = NoExc]
    /\ drained' = [drained EXCEPT ![t] = <<>>]
    /\ nraise' = [nraise EXCEPT ![t] = 0]
    /\ recorded' = [recorded EXCEPT ![t] = <<>>]
    /\ prev_raised' = [prev_raised EXCEPT ![t] = (nraise[t] > 0)]
    /\ UNCHANGED <<shared, config>>

\* pytest_pyfunc_call runs to its yield (outcome = None) and the test
\* function is called.
CallBody(t) ==
    /\ pc[t] = "setup"
    /\ pc' = [pc EXCEPT ![t] = "body"]
    /\ UNCHANGED <<shared, config, xfail, f_locals, callv, endv, finv, recorded>>

\* The test function binds or rebinds its local variable a.
Assign(t, v) ==
    /\ pc[t] = "body"
    /\ f_locals[t] # <<[name |-> "a", val |-> v]>>
    /\ f_locals' = [f_locals EXCEPT ![t] = <<[name |-> "a", val |-> v]>>]
    /\ UNCHANGED <<shared, config, pc, xfail, callv, endv, finv, recorded>>

\* The test function returns: the wrapper is sent an outcome with no excinfo.
BodyReturns(t) ==
    /\ pc[t] = "body"
    /\ pc' = [pc EXCEPT ![t] = "ended"]
    /\ exit' = [exit EXCEPT ![t] = "return"]
    /\ exc' = [exc EXCEPT ![t] = NoExc]
    /\ UNCHANGED <<shared, config, xfail, f_locals, callv, finv, recorded>>

\* The test function raises e: the wrapper is sent an outcome whose excinfo
\* is (type(e), e, traceback).
BodyRaises(t, e) ==
    /\ pc[t] = "body"
    /\ pc' = [pc EXCEPT ![t] = "ended"]
    /\ exit' = [exit EXCEPT ![t] = "raise"]
    /\ exc' = [exc EXCEPT ![t] = e]
    /\ UNCHANGED <<shared, config, xfail, f_locals, callv, finv, recorded>>

\* e is raised in the wrapper at its yield: "outcome = yield" never assigns,
\* outcome stays None.
BodyThrown(t, e) ==
    /\ pc[t] = "body"
    /\ pc' = [pc EXCEPT ![t] = "ended"]
    /\ exit' = [exit EXCEPT ![t] = "thrown"]
    /\ exc' = [exc EXCEPT ![t] = e]
    /\ UNCHANGED <<shared, config, xfail, f_locals, callv, finv, recorded>>

\* ------------------------------------------------- pytest_pyfunc_call

Min(a, b) == IF a < b THEN a ELSE b

\* root_msg = "\n%s Failed Assumptions:\n" % failed_count
root_msg(failed_count) == <<Tok("header", <<>>, failed_count, NoEntry, <<>>)>>

\* "\n\n".join(failed_assumptions)
RECURSIVE join(_)
join(failed) ==
    IF failed = <<>> THEN <<>>
    ELSE IF Len(failed) = 1 THEN <<Tok("entry", <<>>, 0, failed[1], <<>>)>>
    ELSE <<Tok("entry", <<>>, 0, failed[1], <<>>), Tok("sep", <<>>, 0, NoEntry, <<>>)>>
         \o join(Tail(failed))

\* A variant of zip that pairs every failure with the final locals.
zip_final(failed, locals) ==
    [i \in 1..Min(Len(failed), Len(locals)) |-> <<failed[i], locals[Len(locals)]>>]

\* zip(failed_assumptions, assumption_locals): as long as the shorter list
zip(failed, locals) ==
    [i \in 1..Min(Len(failed), Len(locals)) |-> <<failed[i], locals[i]>>]

\* "".join("{0}\nLocals:\n{1}\n\n".format(assumption, "\n".join(flocals))
\*         for assumption, flocals in assume_data)
RECURSIVE with_locals(_)
with_locals(assume_data) ==
    IF assume_data = <<>> THEN <<>>
    ELSE <<Tok("entry", <<>>, 0, assume_data[1][1], <<>>),
           Tok("locals", <<>>, 0, NoEntry, assume_data[1][2])>>
         \o with_locals(Tail(assume_data))

\* A variant of longrepr that reports the final failure only.
longrepr_final_only(failed, locals) ==
    IF locals # <<>>
    THEN with_locals(<<<<failed[Len(failed)], locals[Len(locals)]>>>>)
    ELSE join(<<failed[Len(failed)]>>)

\* "".join(longrepr)
longrepr(failed, locals) ==
    IF locals # <<>> THEN with_locals(zip(failed, locals)) ELSE join(failed)

\* A variant of HasExcinfo that never sees the excinfo of the outcome.
HasExcinfoNever(ex, e) == FALSE

\* "if outcome and outcome.excinfo"
HasExcinfo(ex, e) == ex = "raise" /\ e # NoExc

\* A variant of Aggregate that re-raises under the type of the original.
AggregateKeepsType(failed, locals, ex, e) ==
    IF HasExcinfo(ex, e)
    THEN MkExc(e.type, "",
               <<Tok("orig", Repr(e), 0, NoEntry, <<>>)>>
                 \o root_msg(Len(failed)) \o longrepr(failed, locals),
               e.tb)
    ELSE MkExc("FailedAssumption", "",
               root_msg(Len(failed)) \o longrepr(failed, locals),
               "tb_wrapper")

\* The error the finally block raises for a non-empty failed_assumptions.
Aggregate(failed, locals, ex, e) ==
    IF HasExcinfo(ex, e)
    THEN \* raise_(FailedAssumption, FailedAssumption(...), outcome.excinfo[2])
         MkExc("FailedAssumption", "",
               <<Tok("orig", Repr(e), 0, NoEntry, <<>>)>>
                 \o root_msg(Len(failed)) \o longrepr(failed, locals),
               e.tb)
    ELSE MkExc("FailedAssumption", "",
               root_msg(Len(failed)) \o longrepr(failed, locals),
               "tb_wrapper")

\* Variants of MustRaise: raise whatever the buffer holds, or never raise.
MustRaiseAlways(failed) == TRUE

MustRaiseNever(failed) == FALSE

\* "if failed_assumptions:"
MustRaise(failed) == failed # <<>>

\* A variant of RunsFinally without the try/finally: the block runs only
\* when the yield returned an outcome.
RunsOnOutcomeOnly(ex) == ex \in {"return", "raise"}

\* try: outcome = yield / finally: the block runs on every way out of yield.
RunsFinally(ex) == ex \in {"return", "raise", "thrown"}

\* A variant of PassThrough in which the wrapper swallows the exception.
PassThroughSwallows(ex, e) == NoExc

\* What leaves the hook when the wrapper itself raises nothing: the result
\* of the outcome (its exception re-raised as it is) or the exception that
\* was raised at the yield.
PassThrough(ex, e) == IF ex \in {"raise", "thrown"} THEN e ELSE NoExc

\* A variant of del_all that leaves the list as it is.
del_none(list) == list

\* del _FAILED_ASSUMPTIONS[:] and del _ASSUMPTION_LOCALS[:]
del_all(list) == <<>>

\* The wrapper resumes after the test function: the finally block.
Finalize(t) ==
    /\ pc[t] = "ended"
    /\ pc' = [pc EXCEPT ![t] = "teardown"]
    /\ IF RunsFinally(exit[t])
       THEN /\ drained' = [drained EXCEPT ![t] = FAILED_ASSUMPTIONS]
            /\ IF MustRaise(FAILED_ASSUMPTIONS)
               THEN /\ raised' = [raised EXCEPT ![t] =
                         Aggregate(FAILED_ASSUMPTIONS, ASSUMPTION_LOCALS, exit[t], exc[t])]
                    /\ nraise' = [nraise EXCEPT ![t] = @ + 1]
                    /\ FAILED_ASSUMPTIONS' = del_all(FAILED_ASSUMPTIONS)
                    /\ ASSUMPTION_LOCALS' = del_all(ASSUMPTION_LOCALS)
               ELSE /\ raised' = [raised EXCEPT ![t] = PassThrough(exit[t], exc[t])]
                    /\ UNCHANGED <<shared, nraise>>
       ELSE /\ raised' = [raised EXCEPT ![t] = PassThrough(exit[t], exc[t])]
            /\ UNCHANGED <<shared, drained, nraise>>
    /\ UNCHANGED <<config, xfail, f_locals, callv, endv, recorded, prev_raised>>

\* class FailedAssumption(Exception); the builtin types by their base.
Superclass(type) ==
    IF type = "GeneratorExit" THEN "BaseException"
    ELSE IF type = "None" THEN "None"
    ELSE "Exception"

\* The runner's report of the call phase, as the repository's tests observe
\* it: an exception from the hook fails the unit, or xfails a unit marked
\* xfail; no exception passes it, or xpasses a unit marked xfail.
Classify(xf, e) ==
    IF e # NoExc THEN (IF xf THEN "xfailed" ELSE "failed")
    ELSE (IF xf THEN "xpassed" ELSE "passed")

\* ----------------------------------------------------------- specifications

TypeOK ==
    /\ Len(FAILED_ASSUMPTIONS) <= MaxFailed
    /\ showlocals \in BOOLEAN
    /\ \A t \in Threads : pc[t] \in {"off", "setup", "body", "ended", "teardown"}

InitWith(active, lens) ==
    /\ FAILED_ASSUMPTIONS = <<>>
    /\ ASSUMPTION_LOCALS = <<>>
    /\ showlocals \in BOOLEAN
    /\ max_repr_len \in lens
    /\ pc = [t \in Threads |-> IF t \in active THEN "setup" ELSE "off"]
    /\ xfail \in [Threads -> BOOLEAN]
    /\ \A t \in Threads : t \notin active => ~xfail[t]
    /\ f_locals = [t \in Threads |-> <<>>]
    /\ arg = [t \in Threads |-> "None"]
    /\ ret = [t \in Threads |-> "NotCalled"]
    /\ exit = [t \in Threads |-> "none"]
    /\ exc = [t \in Threads |-> NoExc]
    /\ raised = [t \in Threads |-> NoExc]
    /\ drained = [t \in Threads |-> <<>>]
    /\ nraise = [t \in Threads |-> 0]
    /\ recorded = [t \in Threads |-> <<>>]
    /\ prev_raised = [t \in Threads |-> FALSE]

\* One worker running its units one after the other; assume() is called by
\* the test functions.
Init == InitWith({1}, {DefaultMaxReprLen, 16})

Next ==
    \/ \E xf \in BOOLEAN : StartUnit(1, xf)
    \/ CallBody(1)
    \/ \E v \in LocalVals : Assign(1, v)
    \/ \E expr \in Values, msg \in Msgs, site \in SitesOf(1) : Assume(1, expr, msg, site)
    \/ BodyReturns(1)
    \/ \E e \in HardFailures : BodyRaises(1, e)
    \/ \E e \in Thrown : BodyThrown(1, e)
    \/ Finalize(1)

Spec == Init /\ [][Next]_vars

\* One worker as above whose units also call assume() from the teardown of
\* their fixtures.
InitFixtures == InitWith({1}, {DefaultMaxReprLen})

NextFixtures ==
    \/ \E xf \in BOOLEAN : StartUnit(1, xf)
    \/ \E expr \in {"True", "False"} : FixtureAssume(1, expr, <<" ", "m">>)
    \/ CallBody(1)
    \/ \E expr \in {"True", "False"}, site \in SitesOf(1) : Assume(1, expr, <<" ", "m">>, site)
    \/ BodyReturns(1)
    \/ \E e \in HardFailures : BodyRaises(1, e)
    \/ Finalize(1)

SpecFixtures == InitFixtures /\ [][NextFixtures]_vars

\* Two threads of one process, each running one unit of its own file; the
\* module globals are shared.
InitThreads == InitWith(Threads, {DefaultMaxReprLen})

NextThreads ==
    \E t \in Threads :
        \/ CallBody(t)
        \/ \E expr \in {"True", "False"}, site \in SitesOf(t) : Assume(t, expr, <<" ", "m">>, site)
        \/ BodyReturns(t)
        \/ \E e \in HardFailures : BodyRaises(t, e)
        \/ Finalize(t)

SpecThreads == InitThreads /\ [][NextThreads]_vars

\* ------------------------------------------------------------ properties

\* The entries a report itemizes, in the order it prints them.
RECURSIVE ReportEntries(_)
ReportEntries(msg) ==
    IF msg = <<>> THEN <<>>
    ELSE IF Head(msg).k = "entry"
         THEN <<Head(msg).entry>> \o ReportEntries(Tail(msg))
         ELSE ReportEntries(Tail(msg))

\* The Locals blocks of a report, in the order it prints them.
RECURSIVE ReportLocals(_)
ReportLocals(msg) ==
    IF msg = <<>> THEN <<>>
    ELSE IF Head(msg).k = "locals"
         THEN <<Head(msg).flocals>> \o ReportLocals(Tail(msg))
         ELSE ReportLocals(Tail(msg))

\* The entries of the false calls of the unit's test function, in call order.
RecordedEntries(t) == [i \in 1..Len(recorded[t]) |-> recorded[t][i].entry]

\* The unit of context t has been finalized: what left the hook is known.
Finalized(t) == pc[t] = "teardown" /\ exit[t] # "none"

\* C1, for the false calls that returned (recorded): when a test function
\* made at least one of them, the FailedAssumption raised by
\* pytest_pyfunc_call itemizes exactly these calls, one entry each, in call
\* order, and its header counts them; with --showlocals every entry is
\* followed by one Locals block.  The false call that raises instead of
\* returning is covered by C1_EntryForEveryFalseCall.
C1_OneEntryPerFalseCall ==
    \A t \in Threads :
        (Finalized(t) /\ recorded[t] # <<>>) =>
            /\ raised[t].type = "FailedAssumption"
            /\ ReportEntries(raised[t].msg) = RecordedEntries(t)
            /\ \E i \in 1..Len(raised[t].msg) :
                   /\ raised[t].msg[i].k = "header"
                   /\ raised[t].msg[i].n = Len(recorded[t])
            /\ Len(ReportLocals(raised[t].msg)) =
                   (IF showlocals THEN Len(recorded[t]) ELSE 0)
            /\ showlocals =>
                   \A i \in 1..Len(raised[t].msg) :
                       raised[t].msg[i].k = "entry" =>
                           /\ i < Len(raised[t].msg)
                           /\ raised[t].msg[i + 1].k = "locals"

C1_Witness ==
    /\ Finalized(1)
    /\ showlocals
    /\ Len(recorded[1]) = 2
    /\ recorded[1][1].entry # recorded[1][2].entry
    /\ ret[1] = "True"
    /\ Len(ReportEntries(raised[1].msg)) = 2

\* C2: a hard failure of the test function (outcome.excinfo) together with
\* at least one recorded failure leaves the hook as one FailedAssumption
\* whose text starts with the repr of the original failure, followed by the
\* header and the entries, and which carries the original traceback.
C2_HardFailureKept ==
    \A t \in Threads :
        (Finalized(t) /\ exit[t] = "raise" /\ recorded[t] # <<>>) =>
            /\ raised[t].type = "FailedAssumption"
            /\ Len(raised[t].msg) >= 3
            /\ raised[t].msg[1].k = "orig"
            /\ raised[t].msg[1].repr = <<exc[t].type, exc[t].text>>
            /\ raised[t].msg[2].k = "header"
            /\ raised[t].msg[2].n = Len(recorded[t])
            /\ \A i \in 3..Len(raised[t].msg) :
                   raised[t].msg[i].k \in {"entry", "sep", "locals"}
            /\ ReportEntries(raised[t].msg) = RecordedEntries(t)
            /\ raised[t].tb = exc[t].tb
            /\ raised[t].tb # "tb_wrapper"

C2_Witness ==
    /\ Finalized(1)
    /\ exit[1] = "raise"
    /\ exc[1].type = "AssertionError"
    /\ Len(recorded[1]) = 2
    /\ raised[1].tb = "tb_test_body"

\* C3: with nothing in the buffer when the finally block runs, a hard
\* failure of the test function leaves the hook as the same exception: same
\* type, same text, same traceback, and the wrapper raised nothing.
C3_HardFailureUntouched ==
    \A t \in Threads :
        (Finalized(t) /\ exit[t] \in {"raise", "thrown"} /\ drained[t] = <<>>) =>
            /\ raised[t] = exc[t]
            /\ raised[t].type \in {"AssertionError", "ValueError", "TypeError", "GeneratorExit"}
            /\ raised[t].msg = <<>>
            /\ nraise[t] = 0

C3_Witness ==
    /\ Finalized(1)
    /\ exit[1] = "raise"
    /\ ret[1] = "True"
    /\ drained[1] = <<>>
    /\ raised[1].type = "AssertionError"
    /\ raised[1].tb = "tb_test_body"

\* C4: assume() never raises: no call ends with an exception leaving it.
C4_AssumeNeverRaises ==
    \A t \in Threads : ret[t] # "Raised"

\* C5: with two units running concurrently, what a unit's hook raises
\* itemizes the false calls of that unit's own test function and no others;
\* a unit without a false call of its own is not failed by the wrapper.
C5_NoCrossContamination ==
    \A t \in Threads :
        Finalized(t) =>
            /\ ReportEntries(raised[t].msg) = RecordedEntries(t)
            /\ recorded[t] = <<>> => raised[t].type # "FailedAssumption"

\* C6: while the test function of a unit has not made a false call of its
\* own (in particular when it starts), both buffers are empty, also when
\* fixtures call assume() during setup or teardown.
C6_BuffersEmptyAtBodyStart ==
    \A t \in Threads :
        (pc[t] = "body" /\ recorded[t] = <<>>) =>
            /\ FAILED_ASSUMPTIONS = <<>>
            /\ ASSUMPTION_LOCALS = <<>>

\* C7: per unit the wrapper raises FailedAssumption at most once, and it
\* does so exactly when the buffer it drained was not empty; a unit whose
\* assume() calls were all true and whose function returned raises nothing
\* and is reported passed (xpassed when marked xfail).
C7_RaisedIffDrainedNonEmpty ==
    \A t \in Threads :
        /\ nraise[t] <= 1
        /\ Finalized(t) =>
            /\ nraise[t] = 1 <=> drained[t] # <<>>
            /\ raised[t].type = "FailedAssumption" <=> drained[t] # <<>>
            /\ (recorded[t] = <<>> /\ exit[t] = "return") =>
                   /\ raised[t] = NoExc
                   /\ Classify(xfail[t], raised[t]) = (IF xfail[t] THEN "xpassed" ELSE "passed")

C7_Witness ==
    /\ Finalized(1)
    /\ xfail[1]
    /\ ret[1] = "True"
    /\ exit[1] = "return"
    /\ nraise[1] = 0
    /\ Classify(xfail[1], raised[1]) = "xpassed"

\* C8: once the wrapper has resumed after the test function, by whichever
\* way the function was left (return, exception in the outcome, exception
\* raised at the yield with no outcome), both buffers are empty, the finally
\* block has read every recorded failure, and every one of them is itemized
\* in the FailedAssumption it raised.
C8_FinalizedOnEveryExit ==
    \A t \in Threads :
        Finalized(t) =>
            /\ FAILED_ASSUMPTIONS = <<>>
            /\ ASSUMPTION_LOCALS = <<>>
            /\ drained[t] = RecordedEntries(t)
            /\ recorded[t] # <<>> =>
                   /\ raised[t].type = "FailedAssumption"
                   /\ ReportEntries(raised[t].msg) = RecordedEntries(t)

C8_Witness ==
    /\ Finalized(1)
    /\ exit[1] = "thrown"
    /\ Len(recorded[1]) = 2
    /\ raised[1].type = "FailedAssumption"
    /\ FAILED_ASSUMPTIONS = <<>>

C10_SoftFailureXfails ==
    \A t \in Threads :
        (Finalized(t) /\ xfail[t] /\ exit[t] = "return" /\ recorded[t] # <<>>) =>
            /\ raised[t].type = "FailedAssumption"
            /\ Superclass(raised[t].type) = "Exception"
            /\ Classify(xfail[t], raised[t]) = "xfailed"

C10_Witness ==
    /\ Finalized(1)
    /\ xfail[1]
    /\ exit[1] = "return"
    /\ Len(recorded[1]) = 1
    /\ Classify(xfail[1], raised[1]) = "xfailed"

\* C11: with --showlocals every captured local value is stored cut to the
\* configured --assume-max-repr-len: no stored value is longer than it.
C11_ReprBoundedByOption ==
    \A i \in 1..Len(ASSUMPTION_LOCALS) :
        \A j \in 1..Len(ASSUMPTION_LOCALS[i]) :
            ASSUMPTION_LOCALS[i][j].value.len <= max_repr_len

\* The false assume() calls of the unit's test function so far: those that
\* recorded an entry, and the one that raised instead.
FalseCalls(t) == Len(recorded[t]) + (IF ret[t] = "Raised" THEN 1 ELSE 0)

\* C1 over every false call, the one that raises included: the report has
\* one entry per false call of the test function.
C1_EntryForEveryFalseCall ==
    \A t \in Threads :
        (Finalized(t) /\ FalseCalls(t) > 0) =>
            /\ raised[t].type = "FailedAssumption"
            /\ Len(ReportEntries(raised[t].msg)) = FalseCalls(t)

\* The context of a recorded call is as C12 says: the message as given, or
\* the source line without its leading blanks.
ContextAsStated(r, c) ==
    IF r.msg # <<>>
    THEN /\ c = r.msg
         /\ \A k \in 1..Len(c) : c[k] # "assume(a == b)"
    ELSE /\ ~r.site.contextlist.isNone
         /\ c # <<>>
         /\ c[1] # " "
         /\ \E n \in 0..Len(r.site.contextlist.lines[1]) :
                r.site.contextlist.lines[1] = [k \in 1..n |-> " "] \o c

\* C12: the context stored for a failing call, and printed for it, is the
\* caller's message verbatim when one was given (the source text is then
\* absent) and otherwise the call site's source line, leading whitespace
\* stripped.
C12_ContextIsMsgOrSource ==
    \A t \in Threads :
        /\ pc[t] \in {"body", "ended"} =>
               /\ Len(FAILED_ASSUMPTIONS) = Len(recorded[t])
               /\ \A i \in 1..Len(recorded[t]) :
                      ContextAsStated(recorded[t][i], FAILED_ASSUMPTIONS[i].context)
        /\ (Finalized(t) /\ recorded[t] # <<>>) =>
               /\ Len(ReportEntries(raised[t].msg)) = Len(recorded[t])
               /\ \A i \in 1..Len(recorded[t]) :
                      ContextAsStated(recorded[t][i], ReportEntries(raised[t].msg)[i].context)

C12_Witness ==
    /\ pc[1] = "body"
    /\ Len(recorded[1]) = 2
    /\ recorded[1][1].msg = <<" ", "m">>
    /\ recorded[1][2].msg = <<>>
    /\ FAILED_ASSUMPTIONS[1].context = <<" ", "m">>
    /\ FAILED_ASSUMPTIONS[2].context = <<"assume(a == b)">>

\* C13: the flag alone decides local capture.  Without --showlocals nothing
\* is stored in the locals buffer and no report has a Locals block; with it
\* every reported entry is followed by a Locals block that lists the
\* caller's bindings by name, with their formatted values.
C13_LocalsFollowFlag ==
    /\ ~showlocals =>
           /\ ASSUMPTION_LOCALS = <<>>
           /\ \A t \in Threads : ReportLocals(raised[t].msg) = <<>>
    /\ showlocals =>
           \A t \in Threads :
               (Finalized(t) /\ recorded[t] # <<>>) =>
                   \A i \in 1..Len(raised[t].msg) :
                       raised[t].msg[i].k = "entry" =>
                           /\ i < Len(raised[t].msg)
                           /\ raised[t].msg[i + 1].k = "locals"
                           /\ \E r \in 1..Len(recorded[t]) :
                                  /\ recorded[t][r].entry = raised[t].msg[i].entry
                                  /\ Len(raised[t].msg[i + 1].flocals) = Len(recorded[t][r].snapshot)
                                  /\ \A j \in 1..Len(recorded[t][r].snapshot) :
                                         raised[t].msg[i + 1].flocals[j].name
                                             = recorded[t][r].snapshot[j].name

C13_Witness ==
    /\ Finalized(1)
    /\ showlocals
    /\ Len(recorded[1]) = 1
    /\ recorded[1][1].snapshot = <<[name |-> "a", val |-> "1"]>>
    /\ ReportLocals(raised[1].msg) = <<<<[name |-> "a", value |-> [txt |-> "1", len |-> 1]]>>>>

\* A step of context t is an assume() call of its test function: the
\* function is running, its locals are not rebound, and it either goes on
\* running or is ended by an exception leaving assume().
IsAssumeStep(t) ==
    /\ pc[t] = "body"
    /\ f_locals'[t] = f_locals[t]
    /\ pc'[t] = "body" \/ ret'[t] = "Raised"

\* C14: an assume() call with a true expr leaves both buffers unchanged; one
\* with a false expr appends exactly one entry at the end of the failure
\* buffer (and, with --showlocals, one at the end of the locals buffer) and
\* leaves the entries held before as they were.
C14_AppendsOnlyWhenFalse ==
    [][\A t \in Threads :
          IsAssumeStep(t) =>
              IF arg'[t] \in {"True", "'x'"}
              THEN UNCHANGED <<FAILED_ASSUMPTIONS, ASSUMPTION_LOCALS>>
              ELSE /\ Len(FAILED_ASSUMPTIONS') = Len(FAILED_ASSUMPTIONS) + 1
                   /\ SubSeq(FAILED_ASSUMPTIONS', 1, Len(FAILED_ASSUMPTIONS)) = FAILED_ASSUMPTIONS
                   /\ IF showlocals
                      THEN /\ Len(ASSUMPTION_LOCALS') = Len(ASSUMPTION_LOCALS) + 1
                           /\ SubSeq(ASSUMPTION_LOCALS', 1, Len(ASSUMPTION_LOCALS)) = ASSUMPTION_LOCALS
                      ELSE UNCHANGED ASSUMPTION_LOCALS]_vars

\* C15: a run of the finally block that follows another one with no
\* assume() call in between (the next unit made none) finds the buffer
\* empty, raises nothing and leaves both buffers empty.
C15_SecondDrainEmpty ==
    \A t \in Threads :
        (Finalized(t) /\ ret[t] = "NotCalled") =>
            /\ drained[t] = <<>>
            /\ nraise[t] = 0
            /\ raised[t].type # "FailedAssumption"
            /\ FAILED_ASSUMPTIONS = <<>>
            /\ ASSUMPTION_LOCALS = <<>>

C15_Witness ==
    /\ Finalized(1)
    /\ prev_raised[1]
    /\ ret[1] = "NotCalled"
    /\ exit[1] = "return"
    /\ drained[1] = <<>>
    /\ raised[1] = NoExc

\* C16: the i-th Locals block of a report shows the bindings as they were
\* at the i-th failing call, whatever the function bound afterwards.
C16_LocalsAreSnapshots ==
    \A t \in Threads :
        (Finalized(t) /\ showlocals /\ recorded[t] # <<>>) =>
            /\ Len(ReportLocals(raised[t].msg)) = Len(recorded[t])
            /\ \A i \in 1..Len(recorded[t]) :
                   /\ Len(ReportLocals(raised[t].msg)[i]) = Len(recorded[t][i].snapshot)
                   /\ \A j \in 1..Len(recorded[t][i].snapshot) :
                          /\ ReportLocals(raised[t].msg)[i][j].name
                                 = recorded[t][i].snapshot[j].name
                          /\ ReportLocals(raised[t].msg)[i][j].value.txt
                                 = recorded[t][i].snapshot[j].val

C16_Witness ==
    /\ Finalized(1)
    /\ showlocals
    /\ Len(recorded[1]) = 2
    /\ recorded[1][1].snapshot = <<[name |-> "a", val |-> "1"]>>
    /\ recorded[1][2].snapshot = <<[name |-> "a", val |-> "long"]>>
    /\ f_locals[1] = <<[name |-> "a", val |-> "1"]>>
    /\ ReportLocals(raised[1].msg)[2][1].value.txt = "long"

C18_TypeIsFailedAssumption ==
    \A t \in Threads :
        (Finalized(t) /\ drained[t] # <<>>) =>
            /\ raised[t].type = "FailedAssumption"
            /\ exit[t] = "raise" =>
                   /\ exc[t].type \in {"AssertionError", "ValueError", "TypeError"}
                   /\ raised[t].type # exc[t].type
                   /\ raised[t].msg[1].repr[1] = exc[t].type
                   /\ raised[t].tb = exc[t].tb

C18_Witness ==
    /\ Finalized(1)
    /\ drained[1] # <<>>
    /\ exit[1] = "raise"
    /\ exc[1].type = "ValueError"
    /\ raised[1].type = "FailedAssumption"
    /\ raised[1].msg[1].repr = <<"ValueError", "boom">>

====
